---- MODULE Spec2Model ----
(***************************************************************************)
(* Model of the rxsv store engine (src/src/index.ts): createStore wires a  *)
(* BehaviorSubject of actions, a scan/shareReplay state stream and an      *)
(* effect feedback loop.  The rxjs primitives the code calls are modelled  *)
(* by what they do: Subject.next delivers synchronously, depth first, to a *)
(* copy of the observer list; BehaviorSubject replays its current value to *)
(* a new subscriber; scan folds without emitting its seed; shareReplay()   *)
(* connects on the first subscription and replays its whole buffer.        *)
(***************************************************************************)
EXTENDS Integers, Sequences, FiniteSets, TLC

\* ---------------------------------------------------------------- bounds
MaxDispatch == 2
MaxStateSubs == 3
MaxActionSubs == 1
MaxCalls == 3
MaxSource == 3

\* ------------------------------------------------------- optional values
\* `void 0` / an omitted argument; a present value x is Some(x).
Undefined == <<>>
Some(x) == <<x>>

\* ---------------------------------------------------------------- actions
\* createAction(type, payload?): the payload field is omitted when the payload
\* is undefined.
createAction(type, payload) ==
    IF payload = Undefined
    THEN [type |-> type]
    ELSE [type |-> type, payload |-> payload[1]]

InitAction == createAction("@@INIT", Undefined)
InitStateAction == createAction("@@INIT/state", Undefined)

\* The action types callers dispatch (tests: TEST; spec scenario: TRIGGER, INC).
ActionTypes == {"TRIGGER", "INC", "TEST"}

\* --------------------------------------------------------------- reducers
\* Reducer<A, S> = (state: S | undefined, action: A) => S.  Three reducers:
\*   "const" : (state = initialState) => state                 (the test reducer)
\*   "count" : (s = {count: 0}, a) => a.type === 'INC' ? {count: s.count + 1} : s
\*   "log"   : (s = [], a) => [...s, a.type]   (records every call, in order)
\*   "failing" : the counting reducer, except that it throws on a TEST action
initialState == [init |-> TRUE]

ReducerKinds == {"const", "count", "log"}

Reducer(kind, state, action) ==
    CASE kind = "const" ->
            IF state = Undefined THEN initialState ELSE state[1]
      [] kind = "count" ->
            LET s == IF state = Undefined THEN [count |-> 0] ELSE state[1]
            IN  IF action.type = "INC" THEN [count |-> s.count + 1] ELSE s
      [] kind = "log" ->
            LET s == IF state = Undefined THEN [log |-> <<>>] ELSE state[1]
            IN  [log |-> Append(s.log, action.type)]
      [] kind = "failing" ->
            LET s == IF state = Undefined THEN [count |-> 0] ELSE state[1]
            IN  IF action.type = "INC" THEN [count |-> s.count + 1] ELSE s

\* The reducer call throws instead of returning.
ReducerRaises(kind, state, action) == kind = "failing" /\ action.type = "TEST"

\* ---------------------------------------------------------------- effects
\* Effect<A, S> = (action$, state$) => Observable<A>.  An effect is modelled as
\* the sequence of pipelines it subscribes, in subscription order:
\*   [src |-> "action", ofType |-> t, mapTo |-> u] : action$.pipe(ofType(t), mapTo(u))
\*   [src |-> "action", ofType |-> "", mapTo |-> ""] : action$.pipe(ignoreElements())
\*   [src |-> "state",  ofType |-> "", mapTo |-> ""] : state$.pipe(ignoreElements())
\* and, with raises set, action$.pipe(ofType(t), map(() => { throw ... })).
Pipe(src, from, to) == [src |-> src, ofType |-> from, mapTo |-> to, raises |-> FALSE]

ignoreEffect == << Pipe("action", "", "") >>
triggerEffect == << Pipe("action", "TRIGGER", "INC") >>
incEffect == << Pipe("action", "INC", "TEST") >>
watchStateEffect == << Pipe("state", "", "") >>
failingEffect == << [Pipe("action", "TEST", "") EXCEPT !.raises = TRUE] >>

RECURSIVE Flatten(_)
Flatten(seqs) == IF seqs = <<>> THEN <<>> ELSE Head(seqs) \o Flatten(Tail(seqs))

\* Only the first constituent is subscribed (concat of never-ending streams).
firstEffectOnly(effects) == Head(effects)

\* combineEffects(...effects): merge of every constituent applied to the same
\* two streams; merge subscribes its inputs in argument order.
combineEffects(effects) == Flatten(effects)


\* The rootEffect arguments explored; Undefined is createStore(reducer).
RootEffects ==
    { Undefined,
      Some(ignoreEffect),
      Some(triggerEffect),
      Some(combineEffects(<< triggerEffect, incEffect >>)),
      Some(combineEffects(<< watchStateEffect, triggerEffect >>)) }

\* What the caller wrote as second argument: no effect (<<>>), one effect, or
\* combineEffects(...) of several.
EffectArgs ==
    { <<>>,
      << ignoreEffect >>,
      << triggerEffect >>,
      << triggerEffect, incEffect >>,
      << watchStateEffect, triggerEffect >> }

rootOf(parts) ==
    IF parts = <<>> THEN Undefined
    ELSE IF Len(parts) = 1 THEN Some(parts[1])
    ELSE Some(combineEffects(parts))

\* ------------------------------------------------------------ JS values
\* Values the reducers and select work on: undefined, a number, or an object
\* with an identity and own properties (pairs of key and value).
Undef == [t |-> "undef", n |-> 0, props |-> {}]

Num(n) == [t |-> "num", n |-> n, props |-> {}]

Obj(id, props) == [t |-> "obj", n |-> id, props |-> props]

\* x === y: numbers by value, objects by identity.
strictEquals(x, y) == x.t = y.t /\ x.n = y.n

Keys(props) == { p[1] : p \in props }

\* obj[key]: undefined when the object has no such key.
getProp(props, key) ==
    IF key \in Keys(props) THEN (CHOOSE p \in props : p[1] = key)[2] ELSE Undef

\* { ...obj, [key]: value }
setProp(props, key, value) == { p \in props : p[1] # key } \cup { << key, value >> }

\* ------------------------------------------- combineReducers (line 62-75)
Fields == { "a", "b" }

\* Sub-reducers: a counter (a number), a list (an object replaced on INC), one
\* that returns a copy of its state on every action, and one that returns
\* the state it was given (undefined on the first call).
SubReducerKinds == { "count", "list", "copy", "identity" }

\* reducer(state, action) for a sub-reducer; id is the identity an object it
\* creates gets.
subReducer(kind, state, action, id) ==
    CASE kind = "count" ->
            IF state = Undef THEN Num(0)
            ELSE IF action.type = "INC" THEN Num(state.n + 1)
            ELSE state
      [] kind = "list" ->
            IF state = Undef THEN Obj(id, { << "len", Num(0) >> })
            ELSE IF action.type = "INC"
            THEN Obj(id, { << "len", Num(getProp(state.props, "len").n + 1) >> })
            ELSE state
      [] kind = "copy" -> Obj(id, state.props)
      [] kind = "identity" -> state

Entry(field, reducer) == [field |-> field, reducer |-> reducer]

\* Object.entries(reducers) of the mappings handed to combineReducers.
Mappings ==
    { <<>> }
    \cup { << Entry(f, k) >> : f \in Fields, k \in SubReducerKinds }
    \cup { << Entry(fk[1], fk[3]), Entry(fk[2], fk[4]) >> :
             fk \in { x \in Fields \X Fields \X SubReducerKinds \X SubReducerKinds :
                        x[1] # x[2] } }

\* The memory the combined reducer works in: the aggregate objects by
\* reference, the next free identity, the sub-reducer calls made.
Memory(heap, nextId) == [heap |-> heap, nextId |-> nextId, subCalls |-> <<>>]

\* The sub-state is read from the aggregate's first field whatever the field.
readFirstField(obj, field) == getProp(obj, "a")

\* acc[field]
readField(obj, field) == getProp(obj, field)

\* The field is written into acc itself.
assignInPlace(mem, acc, field, value) ==
    [mem |-> [mem EXCEPT !.heap[acc] = setProp(@, field, value)], ref |-> acc]

\* { ...acc, [field]: nextSubState }: a new object.
spreadWith(mem, acc, field, value) ==
    [mem |-> [mem EXCEPT !.heap = Append(@, setProp(mem.heap[acc], field, value))],
     ref |-> Len(mem.heap) + 1]

\* The callback of reduce (line 64-74).
reduceStep(mem, acc, entry, action) ==
    LET prevSubState == readField(mem.heap[acc], entry.field)
        nextSubState == subReducer(entry.reducer, prevSubState, action, mem.nextId)
        mem1 == [mem EXCEPT
                    !.nextId = IF nextSubState.t = "obj" /\ nextSubState.n = mem.nextId
                               THEN @ + 1 ELSE @,
                    !.subCalls = Append(@, [field |-> entry.field,
                                            prev |-> prevSubState,
                                            action |-> action,
                                            next |-> nextSubState])]
    IN  IF ~strictEquals(prevSubState, nextSubState)
        THEN spreadWith(mem1, acc, entry.field, nextSubState)
        ELSE [mem |-> mem1, ref |-> acc]

RECURSIVE reduceEntries(_, _, _, _)
reduceEntries(mem, acc, entries, action) ==
    IF entries = <<>> THEN [mem |-> mem, ref |-> acc]
    ELSE LET step == reduceStep(mem, acc, Head(entries), action)
         IN  reduceEntries(step.mem, step.ref, Tail(entries), action)

\* prevState = {}: a new empty object when prevState is undefined.
defaultState(mem, prevState) ==
    IF prevState = Undefined
    THEN [mem |-> [mem EXCEPT !.heap = Append(@, {})], ref |-> Len(mem.heap) + 1]
    ELSE [mem |-> mem, ref |-> prevState[1]]

\* combineReducers(reducers)(prevState, action)
combineReducers(reducers, mem, prevState, action) ==
    LET start == defaultState(mem, prevState)
    IN  reduceEntries(start.mem, start.ref, reducers, action)

\* ---------------------------------------------------- select (line 83-96)
\* select(mapper) and select(path, ...paths)
Selectors ==
    { [mapper |-> "", path |-> << "a", "b" >>],
      [mapper |-> "", path |-> << "a" >>],
      [mapper |-> "getA", path |-> <<>>],
      [mapper |-> "hasA", path |-> <<>>],
      [mapper |-> "const", path |-> <<>>] }

NoSelector == [mapper |-> "", path |-> <<>>]

haveMapperFunc(selector) == selector.mapper # ""

Mapper(kind, source) ==
    CASE kind = "getA" -> getProp(source.props, "a")
      [] kind = "hasA" -> IF "a" \in Keys(source.props) THEN Num(1) ELSE Num(0)
      [] kind = "const" -> Num(0)

\* pluck(...props): follow the keys, undefined as soon as one is undefined.
RECURSIVE pluck(_, _)
pluck(x, props) ==
    IF props = <<>> THEN x
    ELSE LET p == getProp(x.props, Head(props))
         IN  IF p # Undef THEN pluck(p, Tail(props)) ELSE Undef

\* The first operator of the pipe (line 91-93).
project(selector, source) ==
    IF haveMapperFunc(selector) THEN Mapper(selector.mapper, source)
    ELSE pluck(source, selector.path)

NoKey == [hasKey |-> FALSE, key |-> Undef, emitted |-> <<>>]

\* Every value is passed on.
passEvery(st, value) ==
    [st EXCEPT !.hasKey = TRUE, !.key = value, !.emitted = Append(@, value)]

\* distinctUntilChanged(): the first value, then a value that is not === the
\* key, which becomes the key.
distinctUntilChanged(st, value) ==
    IF st.hasKey /\ strictEquals(st.key, value) THEN st
    ELSE [st EXCEPT !.hasKey = TRUE, !.key = value, !.emitted = Append(@, value)]

\* Source values: states of the shape {a: {b: X}}, with equal X in different
\* objects, X an object, and states without a or without a.b.
SourceValues ==
    { Obj(1, { << "a", Obj(11, { << "b", Num(1) >> }) >> }),
      Obj(2, { << "a", Obj(12, { << "b", Num(1) >> }) >> }),
      Obj(3, { << "a", Obj(13, { << "b", Num(2) >> }) >> }),
      Obj(4, {}),
      Obj(5, { << "a", Obj(14, {}) >> }),
      Obj(6, { << "a", Obj(15, { << "b", Obj(21, {}) >> }) >> }),
      Obj(7, { << "a", Obj(16, { << "b", Obj(22, {}) >> }) >> }) }

\* createAction's arguments.
TypeArgs == { "", "INC" }

PayloadArgs == { Undefined, Some(1) }

\* The library before any of its functions is called.
LibIdle ==
    [ mode |-> "idle", reducers |-> <<>>, heap |-> <<>>, nextId |-> 1,
      results |-> <<>>, calls |-> <<>>, selector |-> NoSelector,
      distinct |-> NoKey, selectLog |-> <<>>, created |-> <<>> ]

\* ------------------------------------------------------------- the store
VARIABLES
    lib,          \* combineReducers / select / createAction called on their own
    pc,           \* "new" before createStore has run, "ready" after it returned
    rootReducer,  \* createStore's first argument
    rootEffect,   \* createStore's second argument (Undefined when omitted)
    effectParts,  \* the effects the caller built rootEffect from
    w,            \* the objects createStore builds, and what their observers saw
    dispatched,   \* types of the actions callers passed to store.action$.next
    stateSubAt,   \* per state$ subscriber: the store as it subscribed
    actionSubAt   \* per action$ subscriber: the store as it subscribed

vars == << pc, rootReducer, rootEffect, effectParts, w, dispatched, stateSubAt,
          actionSubAt, lib >>

NoAction == [type |-> ""]

\* Before createStore nothing exists.
\*   value, actionObservers : action$ (BehaviorSubject._value, Subject.observers)
\*   effectNextCalls        : calls of effect$.next
\*   effectCalls            : invocations of the rootEffect function
\*   effectAlive            : the subscription of line 44-46 is still open
\*   pipes                  : the pipelines the effect subscribed
\*   effectErrorAt          : how many values action$.next had been given when
\*                            the effect's output raised an error (-1: it has not)
\*   hasSubject, buffer, stateObservers : shareReplay's ReplaySubject
\*   hasError               : shareReplay's source ended with an error
\*   scanSeed, seed         : the seed given to scan, and scan's accumulator
\*   stateErrors            : the errors state$ subscribers received, each with
\*                            the number of states the subscriber had before it
\*   connectedAt            : how many values action$.next had been given when
\*                            scan subscribed action$ (-1: not subscribed)
\*   reducerCalls           : every rootReducer invocation, in order; pub is the
\*                            position in `published` of the action folded
\*                            (0: the BehaviorSubject's initial value, -1: none)
\*   published              : every value passed to action$.next, in order, and
\*                            whether a caller or the effect pipeline passed it
\*   emitted, emittedBy     : every action an effect pipeline emitted, in order,
\*                            and the pipeline that emitted it
\*   effectSeen, actionSeen, stateSeen : what each observer received
Blank ==
    [ value |-> NoAction, actionObservers |-> <<>>,
      effectNextCalls |-> 0, effectCalls |-> 0, effectAlive |-> FALSE,
      effectErrorAt |-> -1,
      pipes |-> <<>>, reducer |-> "",
      hasSubject |-> FALSE, hasError |-> FALSE,
      buffer |-> <<>>, stateObservers |-> <<>>,
      scanSeed |-> Undefined, seed |-> Undefined, connectedAt |-> -1,
      stateErrors |-> <<>>,
      reducerCalls |-> <<>>, published |-> <<>>, emitted |-> <<>>,
      emittedBy |-> <<>>,
      effectSeen |-> <<>>, actionSeen |-> <<>>, stateSeen |-> <<>> ]

Observer(kind, id) == [kind |-> kind, id |-> id]
ScanObserver == Observer("scan", 0)

\* ------------------------------------------- effect pipeline (line 44-46)
\* An error that is raised is kept although nothing is torn down.
effectErrorIgnored(st) == st

\* The effect's output raised an error: the subscriber of line 46 has no error
\* handler, the error ends the mergeMap subscription and with it every
\* subscription the effect made on action$ and state$.
effectError(st) ==
    [st EXCEPT !.effectAlive = FALSE,
               !.actionObservers = SelectSeq(@, LAMBDA o : o.kind # "effect"),
               !.stateObservers = SelectSeq(@, LAMBDA o : o.kind # "effect")]

\* ---------------------------------------------------- state$ (line 38-41)
\* shareReplay() has bufferSize = Infinity: the ReplaySubject drops nothing.
trimBuffer(events) == events

\* One state$ observer receives a state: a subscriber records it, the effect's
\* state$.pipe(ignoreElements()) drops it.
deliverState(st, o, s) ==
    IF o.kind = "sub"
    THEN [st EXCEPT !.stateSeen[o.id] = Append(@, s)]
    ELSE st

RECURSIVE notifyState(_, _, _)
notifyState(st, observers, s) ==
    IF observers = <<>> THEN st
    ELSE notifyState(deliverState(st, Head(observers), s), Tail(observers), s)

\* A state equal to the last one buffered is not emitted again.
replayNextDistinct(st, s) ==
    IF st.buffer # <<>> /\ st.buffer[Len(st.buffer)] = s
    THEN st
    ELSE LET st1 == [st EXCEPT !.buffer = Append(@, s)]
         IN  notifyState(st1, st1.stateObservers, s)

\* ReplaySubject.next: buffer the value, then deliver it to every observer.
replayNext(st, s) ==
    LET st1 == [st EXCEPT !.buffer = trimBuffer(Append(@, s))]
    IN  notifyState(st1, st1.stateObservers, s)

\* One state$ observer receives the error of the fold: a subscriber records
\* it; the effect's pipeline on state$ passes it to the effect's output.
deliverStateError(st, o) ==
    IF o.kind = "sub"
    THEN [st EXCEPT !.stateErrors =
                        Append(@, [sub |-> o.id, after |-> Len(st.stateSeen[o.id])])]
    ELSE IF o.kind = "effect" /\ st.effectAlive
    THEN effectError([st EXCEPT !.effectErrorAt = Len(st.published)])
    ELSE st

RECURSIVE notifyStateError(_, _)
notifyStateError(st, observers) ==
    IF observers = <<>> THEN st
    ELSE notifyStateError(deliverStateError(st, Head(observers)), Tail(observers))

\* The error is swallowed: scan stays subscribed and the previous state is
\* emitted once more.
scanFallBack(st) == replayNext(st, st.seed[1])

\* The reducer threw inside scan: shareReplay notes the error and passes it to
\* every observer of its subject, which then has none; scan is unsubscribed
\* from action$.
scanError(st) ==
    LET st1 == [st EXCEPT !.hasError = TRUE,
                          !.actionObservers = SelectSeq(@, LAMBDA o : o.kind # "scan"),
                          !.stateObservers = <<>>]
    IN  notifyStateError(st1, st.stateObservers)

\* scan that emits the accumulator it had before the action (the seed first).
scanEmitPrevious(st, a, n) ==
    LET res == Reducer(st.reducer, st.seed, a)
        call == [prev |-> st.seed, action |-> a, result |-> res, pub |-> n,
                 raised |-> FALSE]
    IN  replayNext([st EXCEPT !.seed = Some(res),
                              !.reducerCalls = Append(@, call)], st.seed[1])

\* scan(rootReducer, seed): fold the action, keep the result, emit it; a call
\* that throws is recorded with the accumulator it leaves untouched.
scanNext(st, a, n) ==
    IF ReducerRaises(st.reducer, st.seed, a)
    THEN scanError([st EXCEPT !.reducerCalls =
                        Append(@, [prev |-> st.seed, action |-> a,
                                   result |-> st.seed[1], pub |-> n,
                                   raised |-> TRUE])])
    ELSE
    LET res == Reducer(st.reducer, st.seed, a)
        call == [prev |-> st.seed, action |-> a, result |-> res, pub |-> n,
                 raised |-> FALSE]
    IN  replayNext([st EXCEPT !.seed = Some(res),
                              !.reducerCalls = Append(@, call)], res)

\* ---------------------------------------------- action$ (line 34, 44-46)
\* A pipeline that never emits.
noOutput(p, a) == <<>>

\* What an effect pipeline emits for one action of action$.
pipeOutput(p, a) ==
    IF p.src = "action" /\ p.ofType # "" /\ p.ofType = a.type /\ ~p.raises
    THEN << createAction(p.mapTo, Undefined) >>
    ELSE <<>>

\* The pipeline throws on this action.
pipeRaises(p, a) == p.src = "action" /\ p.raises /\ p.ofType = a.type

scanSubscribed(st) ==
    \E k \in 1..Len(st.actionObservers) : st.actionObservers[k].kind = "scan"

RECURSIVE actionNext(_, _, _), notifyAction(_, _, _, _), deliverAction(_, _, _, _)

\* One action$ observer receives an action (the n-th published).  An effect pipeline's output goes
\* through mergeMap to `action => action$.next(action)`, synchronously.
\* An observer that was unsubscribed while the action is being delivered (it is
\* still in the copy of the list) ignores it.
deliverAction(st, o, a, n) ==
    CASE o.kind = "effect" /\ ~st.effectAlive -> st
      [] o.kind = "effect" /\ st.effectAlive /\ pipeRaises(st.pipes[o.id], a) ->
            effectError([st EXCEPT !.effectSeen =
                                       Append(@, [pipe |-> o.id, action |-> a, pub |-> n]),
                                   !.effectErrorAt = Len(st.published)])
      [] o.kind = "effect" /\ st.effectAlive /\ ~pipeRaises(st.pipes[o.id], a) ->
            LET out == pipeOutput(st.pipes[o.id], a)
                st1 == [st EXCEPT !.effectSeen =
                                      Append(@, [pipe |-> o.id, action |-> a, pub |-> n]),
                                  !.emitted = @ \o out,
                                  !.emittedBy = @ \o [i \in 1..Len(out) |-> o.id]]
            IN  IF out # <<>>
                THEN actionNext(st1, out[1], "effect")
                ELSE st1
      [] o.kind = "scan" -> IF scanSubscribed(st) THEN scanNext(st, a, n) ELSE st
      [] o.kind = "sub" -> [st EXCEPT !.actionSeen[o.id] = Append(@, a)]

\* What the effect pipeline published is kept from the effects themselves.
RECURSIVE notifySkippingEffects(_, _, _, _)
notifySkippingEffects(st, observers, a, n) ==
    IF observers = <<>> THEN st
    ELSE LET o == Head(observers)
             skip == o.kind = "effect" /\ n >= 1 /\ st.published[n].by = "effect"
             st1 == IF skip THEN st ELSE deliverAction(st, o, a, n)
         IN  notifySkippingEffects(st1, Tail(observers), a, n)

notifyAction(st, observers, a, n) ==
    IF observers = <<>> THEN st
    ELSE notifyAction(deliverAction(st, Head(observers), a, n), Tail(observers), a, n)

\* BehaviorSubject.next: store the value, then Subject.next delivers it to a
\* copy of the observer list, one observer after the other.
actionNext(st, a, by) ==
    LET st1 == [st EXCEPT !.value = a,
                          !.published = Append(@, [action |-> a, by |-> by])]
    IN  notifyAction(st1, st1.actionObservers, a, Len(st1.published))

\* A plain Subject in place of the BehaviorSubject: nothing is replayed.
subjectSubscribe(st, o) == [st EXCEPT !.actionObservers = Append(@, o)]

\* BehaviorSubject subscription: register, then replay the current value.
behaviorSubscribe(st, o) ==
    deliverAction([st EXCEPT !.actionObservers = Append(@, o)], o, st.value,
                  Len(st.published))

\* ------------------------------------------------ shareReplay (line 40)
\* No sharing: every subscription subscribes the source again.
alwaysConnect(st) == TRUE

\* The source (action$.pipe(scan)) is subscribed when there is no subject yet,
\* and again, with a new subject, when it ended with an error.
needsConnect(st) == ~st.hasSubject \/ st.hasError

RECURSIVE replayTo(_, _, _)
replayTo(st, o, events) ==
    IF events = <<>> THEN st
    ELSE replayTo(deliverState(st, o, Head(events)), o, Tail(events))

shareReplaySubscribe(st, o) ==
    IF needsConnect(st)
    THEN behaviorSubscribe([st EXCEPT !.hasSubject = TRUE,
                                      !.hasError = FALSE,
                                      !.connectedAt = Len(st.published),
                                      !.seed = st.scanSeed,
                                      !.buffer = <<>>,
                                      !.stateObservers = << o >>],
                           ScanObserver)
    ELSE LET st1 == replayTo(st, o, st.buffer)
         IN  [st1 EXCEPT !.stateObservers = Append(@, o)]

\* ------------------------------------------------- createStore (30-54)
\* The seed left to be computed at the first subscription.
skipSeed(st) == st

\* scan's seed: rootReducer(void 0, createAction('@@INIT/state')), computed
\* while the pipe is built.
computeSeed(st) ==
    LET res == Reducer(st.reducer, Undefined, InitStateAction)
        call == [prev |-> Undefined, action |-> InitStateAction, result |-> res,
                 pub |-> -1, raised |-> FALSE]
    IN  [st EXCEPT !.scanSeed = Some(res), !.seed = Some(res),
                   !.reducerCalls = Append(@, call)]

\* mergeMap subscribes what effect(action$, state$) returns.
RECURSIVE subscribePipes(_, _)
subscribePipes(st, i) ==
    IF i > Len(st.pipes) THEN st
    ELSE LET o == Observer("effect", i)
             st1 == IF st.pipes[i].src = "state"
                    THEN shareReplaySubscribe(st, o)
                    ELSE behaviorSubscribe(st, o)
         IN  subscribePipes(st1, i + 1)

\* The effect is called, and its result subscribed, a second time.
effectNextTwice(st, effect) ==
    LET st1 == [st EXCEPT !.effectNextCalls = @ + 1]
    IN  IF effect = Undefined
        THEN [st1 EXCEPT !.effectAlive = FALSE]
        ELSE LET once == subscribePipes([st1 EXCEPT !.effectCalls = @ + 1,
                                                    !.pipes = effect[1]], 1)
             IN  subscribePipes([once EXCEPT !.effectCalls = @ + 1], 1)

\* effect$.next(rootEffect): mergeMap calls the effect; calling an omitted
\* effect throws inside mergeMap, which ends the pipeline with an error.
effectNext(st, effect) ==
    LET st1 == [st EXCEPT !.effectNextCalls = @ + 1]
    IN  IF effect = Undefined
        THEN [st1 EXCEPT !.effectAlive = FALSE]
        ELSE subscribePipes([st1 EXCEPT !.effectCalls = @ + 1,
                                        !.pipes = effect[1]], 1)

\* The fold is connected inside createStore.
createStoreEager(reducer, effect) ==
    LET st0 == [Blank EXCEPT !.value = InitAction, !.reducer = reducer]
        st1 == computeSeed(st0)
        st2 == [st1 EXCEPT !.effectAlive = TRUE]
    IN  shareReplaySubscribe(effectNext(st2, effect), Observer("eager", 0))

createStore(reducer, effect) ==
    LET st0 == [Blank EXCEPT !.value = InitAction, !.reducer = reducer]
        st1 == computeSeed(st0)
        st2 == [st1 EXCEPT !.effectAlive = TRUE]
    IN  effectNext(st2, effect)

\* ---------------------------------------------------------------- steps
Init ==
    /\ pc = "new"
    /\ rootReducer \in ReducerKinds
    /\ rootEffect \in RootEffects
    /\ effectParts \in { parts \in EffectArgs : rootOf(parts) = rootEffect }
    /\ w = Blank
    /\ dispatched = <<>>
    /\ stateSubAt = <<>>
    /\ actionSubAt = <<>>
    /\ lib = LibIdle

CreateStore ==
    /\ pc = "new"
    /\ pc' = "ready"
    /\ w' = createStore(rootReducer, rootEffect)
    /\ UNCHANGED << rootReducer, rootEffect, effectParts, dispatched, stateSubAt,
                    actionSubAt, lib >>

\* A caller's store.action$.next(action).
Dispatch(type) ==
    /\ pc = "ready"
    /\ Len(dispatched) < MaxDispatch
    /\ w' = actionNext(w, createAction(type, Undefined), "caller")
    /\ dispatched' = Append(dispatched, type)
    /\ UNCHANGED << pc, rootReducer, rootEffect, effectParts, stateSubAt,
                    actionSubAt, lib >>

\* What a subscriber finds when it subscribes.
Snapshot ==
    [ dispatched |-> Len(dispatched), published |-> Len(w.published),
      computed |-> Len(w.reducerCalls), buffered |-> w.buffer,
      value |-> w.value, connected |-> w.hasSubject, failed |-> w.hasError ]

\* A caller's store.state$.subscribe(...).
SubscribeState ==
    /\ pc = "ready"
    /\ Len(w.stateSeen) < MaxStateSubs
    /\ LET id == Len(w.stateSeen) + 1
       IN  w' = shareReplaySubscribe([w EXCEPT !.stateSeen = Append(@, <<>>)],
                                     Observer("sub", id))
    /\ stateSubAt' = Append(stateSubAt, Snapshot)
    /\ UNCHANGED << pc, rootReducer, rootEffect, effectParts, dispatched,
                    actionSubAt, lib >>

\* A caller's store.action$.subscribe(...).
SubscribeAction ==
    /\ pc = "ready"
    /\ Len(w.actionSeen) < MaxActionSubs
    /\ LET id == Len(w.actionSeen) + 1
       IN  w' = behaviorSubscribe([w EXCEPT !.actionSeen = Append(@, <<>>)],
                                  Observer("sub", id))
    /\ actionSubAt' = Append(actionSubAt, Snapshot)
    /\ UNCHANGED << pc, rootReducer, rootEffect, effectParts, dispatched,
                    stateSubAt, lib >>

Next ==
    \/ CreateStore
    \/ \E type \in ActionTypes : Dispatch(type)
    \/ SubscribeState
    \/ SubscribeAction

Spec == Init /\ [][Next]_vars

\* The same store with a reducer or an effect that throws.
ErrorArgs ==
    { << "failing", << ignoreEffect >> >>,
      << "failing", << triggerEffect, incEffect >> >>,
      << "failing", << watchStateEffect, triggerEffect >> >>,
      << "count", << failingEffect, triggerEffect >> >>,
      << "log", << triggerEffect, failingEffect >> >> }

ErrInit ==
    /\ pc = "new"
    /\ \E args \in ErrorArgs :
          /\ rootReducer = args[1]
          /\ effectParts = args[2]
          /\ rootEffect = rootOf(args[2])
    /\ w = Blank
    /\ dispatched = <<>>
    /\ stateSubAt = <<>>
    /\ actionSubAt = <<>>
    /\ lib = LibIdle

ErrSpec == ErrInit /\ [][Next]_vars

\* ------------------------------------- the library functions on their own
LibInit ==
    /\ pc = "new"
    /\ rootReducer = "const"
    /\ rootEffect = Undefined
    /\ effectParts = <<>>
    /\ w = Blank
    /\ dispatched = <<>>
    /\ stateSubAt = <<>>
    /\ actionSubAt = <<>>
    /\ lib = LibIdle

storeVars == << pc, rootReducer, rootEffect, effectParts, w, dispatched,
               stateSubAt, actionSubAt >>

\* combineReducers(reducers)
CombineReducers(reducers) ==
    /\ lib.mode = "idle"
    /\ lib' = [lib EXCEPT !.mode = "reducers", !.reducers = reducers]
    /\ UNCHANGED storeVars

\* A call of the combined reducer, without a previous state or with an
\* aggregate it returned before.
CallCombined(prevState, type) ==
    /\ lib.mode = "reducers"
    /\ Len(lib.calls) < MaxCalls
    /\ LET action == createAction(type, Undefined)
           r == combineReducers(lib.reducers, Memory(lib.heap, lib.nextId),
                                prevState, action)
       IN  lib' = [lib EXCEPT
                      !.heap = r.mem.heap,
                      !.nextId = r.mem.nextId,
                      !.results = Append(@, r.ref),
                      !.calls = Append(@, [prevState |-> prevState,
                                           action |-> action,
                                           heapBefore |-> lib.heap,
                                           idBefore |-> lib.nextId,
                                           subCalls |-> r.mem.subCalls,
                                           result |-> r.ref])]
    /\ UNCHANGED storeVars

\* select(pathOrMapper, ...paths) applied to a source stream.
Select(selector) ==
    /\ lib.mode = "idle"
    /\ lib' = [lib EXCEPT !.mode = "select", !.selector = selector]
    /\ UNCHANGED storeVars

\* The source stream emits a value.
SourceNext(source) ==
    /\ lib.mode = "select"
    /\ Len(lib.selectLog) < MaxSource
    /\ LET projection == project(lib.selector, source)
           after == distinctUntilChanged(lib.distinct, projection)
       IN  lib' = [lib EXCEPT
                      !.distinct = after,
                      !.selectLog = Append(@, [source |-> source,
                                               projection |-> projection,
                                               emitted |-> Len(after.emitted)])]
    /\ UNCHANGED storeVars

\* createAction(type) / createAction(type, payload): returns, never throws.
CreateAction(type, payload) ==
    /\ lib.mode \in { "idle", "action" }
    /\ Len(lib.created) < MaxCalls
    /\ lib' = [lib EXCEPT !.mode = "action",
                          !.created = Append(@, [type |-> type, payload |-> payload,
                                                 threw |-> FALSE,
                                                 result |-> createAction(type, payload)])]
    /\ UNCHANGED storeVars

LibNext ==
    \/ \E reducers \in Mappings : CombineReducers(reducers)
    \/ \E prevState \in { Undefined } \cup { Some(lib.results[i]) : i \in 1..Len(lib.results) },
          type \in { "INC", "TEST" } : CallCombined(prevState, type)
    \/ \E selector \in Selectors : Select(selector)
    \/ \E source \in SourceValues : SourceNext(source)
    \/ \E type \in TypeArgs, payload \in PayloadArgs : CreateAction(type, payload)

LibSpec == LibInit /\ [][LibNext]_vars


\* ------------------------------------------------------------ properties
Ready == pc = "ready"

RECURSIVE TypesOf(_)
TypesOf(actions) ==
    IF actions = <<>> THEN <<>>
    ELSE << Head(actions).type >> \o TypesOf(Tail(actions))

RECURSIVE ActionsOf(_)
ActionsOf(types) ==
    IF types = <<>> THEN <<>>
    ELSE << createAction(Head(types), Undefined) >> \o ActionsOf(Tail(types))

CallActions == [i \in 1..Len(w.reducerCalls) |-> w.reducerCalls[i].action]

\* The states a reducer yields when folded by hand over `actions` from `from`.
RECURSIVE FoldFrom(_, _, _)
FoldFrom(kind, from, actions) ==
    IF actions = <<>> THEN <<>>
    ELSE LET next == Reducer(kind, Some(from), Head(actions))
         IN  << next >> \o FoldFrom(kind, next, Tail(actions))

BootstrapState == Reducer(rootReducer, Undefined, InitStateAction)

\* The effect has no pipeline that emits.
EffectEmitsNothing == \A i \in 1..Len(w.pipes) : w.pipes[i].ofType = ""

\* C1: with an effect that emits nothing, a state$ subscriber that subscribed
\* before any dispatch has observed exactly the manual fold of the reducer,
\* from R(undefined, @@INIT/state), over @@INIT followed by the dispatched
\* actions: nothing missing, duplicated or out of order.
C1_StateSequenceIsManualFold ==
    Ready =>
        \A k \in 1..Len(stateSubAt) :
            (EffectEmitsNothing /\ stateSubAt[k].dispatched = 0) =>
                w.stateSeen[k] =
                    FoldFrom(rootReducer, BootstrapState,
                             << InitAction >> \o ActionsOf(dispatched))

C1_Witness ==
    /\ Ready
    /\ rootReducer = "log"
    /\ rootEffect = Some(ignoreEffect)
    /\ Len(stateSubAt) >= 1
    /\ stateSubAt[1].dispatched = 0
    /\ Len(dispatched) = MaxDispatch
    /\ Len(w.stateSeen[1]) = MaxDispatch + 1

\* C2: with the effect TRIGGER -> INC, a state$ subscriber attached after
\* createStore and TRIGGER dispatched, the reducer is invoked, in order, with
\* @@INIT/state, @@INIT, TRIGGER, INC: the triggering action is folded before
\* the action the effect emitted for it.
C2_TriggerFoldedBeforeEffectAction ==
    ( /\ Ready
      /\ rootEffect = Some(triggerEffect)
      /\ Len(stateSubAt) >= 1
      /\ stateSubAt[1].dispatched = 0
      /\ dispatched = << "TRIGGER" >> )
    => TypesOf(CallActions) = << "@@INIT/state", "@@INIT", "TRIGGER", "INC" >>

\* C3: the number of reducer invocations is decided by the actions published
\* and by when the fold was connected, never by the number of state$
\* subscribers: one bootstrap invocation, one at the connection, one per action
\* published since; with no dispatch and three subscriptions the invocations
\* are exactly (undefined, @@INIT/state) and (bootstrap state, @@INIT).
C3_InvocationsIndependentOfSubscribers ==
    Ready =>
        /\ Len(w.reducerCalls) =
              IF w.connectedAt < 0 THEN 1
              ELSE 2 + Len(w.published) - w.connectedAt
        /\ (Len(stateSubAt) = 3 /\ dispatched = <<>>) =>
              /\ Len(w.reducerCalls) = 2
              /\ w.reducerCalls[1].prev = Undefined
              /\ w.reducerCalls[1].action = InitStateAction
              /\ w.reducerCalls[2].prev = Some(BootstrapState)
              /\ w.reducerCalls[2].action = InitAction

C3_Witness ==
    /\ Ready
    /\ Len(stateSubAt) = 3
    /\ dispatched = <<>>
    /\ Len(w.reducerCalls) = 2


\* The reducer invocations that folded the n-th published action.
FoldsOf(n) == { j \in 1..Len(w.reducerCalls) : w.reducerCalls[j].pub = n }

EffectPublished == { i \in 1..Len(w.published) : w.published[i].by = "effect" }

RECURSIVE PublishedBy(_, _)
PublishedBy(pubs, by) ==
    IF pubs = <<>> THEN <<>>
    ELSE (IF Head(pubs).by = by THEN << Head(pubs).action >> ELSE <<>>)
         \o PublishedBy(Tail(pubs), by)

\* C4 as stated: every action the effect emitted has been folded exactly once
\* (looked at once state$ has a subscriber).
C4_EveryEffectActionFoldedOnce ==
    (Ready /\ Len(stateSubAt) >= 1) =>
        \A i \in EffectPublished : Cardinality(FoldsOf(i)) = 1

\* C4 (amended): every action the effect emits is published on action$ exactly
\* once; it is folded exactly once when state$ was subscribed before it was
\* emitted, and never more than once otherwise.  With the counting reducer and
\* the effect TRIGGER -> INC, subscribing and then dispatching one TRIGGER
\* gives four reducer invocations, one of them for INC, taking {count: 0} to
\* the final state {count: 1}.
C4_EffectActionPublishedAndFoldedOnce ==
    Ready =>
        /\ PublishedBy(w.published, "effect") = w.emitted
        /\ \A i \in EffectPublished :
              IF w.connectedAt >= 0 /\ i > w.connectedAt
              THEN Cardinality(FoldsOf(i)) = 1
              ELSE Cardinality(FoldsOf(i)) <= 1
        /\ ( /\ rootReducer = "count"
             /\ rootEffect = Some(triggerEffect)
             /\ Len(stateSubAt) >= 1
             /\ stateSubAt[1].dispatched = 0
             /\ dispatched = << "TRIGGER" >> )
           => /\ Len(w.reducerCalls) = 4
              /\ Len(w.emitted) = 1
              /\ \E j \in 1..4 :
                    /\ w.reducerCalls[j].action.type = "INC"
                    /\ w.reducerCalls[j].prev = Some([count |-> 0])
                    /\ w.reducerCalls[j].result = [count |-> 1]
                    /\ \A l \in 1..4 :
                          w.reducerCalls[l].action.type = "INC" => l = j
              /\ w.seed = Some([count |-> 1])
              /\ w.stateSeen[1][Len(w.stateSeen[1])] = [count |-> 1]

C4_Witness ==
    /\ Ready
    /\ rootReducer = "count"
    /\ rootEffect = Some(triggerEffect)
    /\ Len(stateSubAt) >= 1
    /\ stateSubAt[1].dispatched = 0
    /\ dispatched = << "TRIGGER" >>
    /\ w.seed = Some([count |-> 1])

\* C5: createStore without an effect argument publishes nothing on the
\* effect-registration stream (zero effect$.next calls); with an effect it
\* publishes exactly once.
C5_NoRegistrationWithoutEffect ==
    Ready => w.effectNextCalls = (IF rootEffect = Undefined THEN 0 ELSE 1)

\* C6: the reducer is invoked with @@INIT/state exactly once, with previous
\* state undefined, inside createStore and so before any state$ subscription,
\* also when nobody ever subscribes; @@INIT/state is never published on
\* action$ and no effect or action$ subscriber observes it.
C6_BootstrapInvokedOnceEagerly ==
    Ready =>
        /\ Len(w.reducerCalls) >= 1
        /\ w.reducerCalls[1].prev = Undefined
        /\ w.reducerCalls[1].action = InitStateAction
        /\ w.reducerCalls[1].pub = -1
        /\ \A j \in 2..Len(w.reducerCalls) :
              w.reducerCalls[j].action.type # "@@INIT/state"
        /\ \A k \in 1..Len(stateSubAt) : stateSubAt[k].computed >= 1
        /\ \A i \in 1..Len(w.published) :
              w.published[i].action.type # "@@INIT/state"
        /\ \A i \in 1..Len(w.effectSeen) :
              w.effectSeen[i].action.type # "@@INIT/state"
        /\ \A k \in 1..Len(w.actionSeen) :
              \A i \in 1..Len(w.actionSeen[k]) :
                  w.actionSeen[k][i].type # "@@INIT/state"

C6_Witness ==
    /\ Ready
    /\ stateSubAt = <<>>
    /\ ~w.hasSubject
    /\ Len(dispatched) = MaxDispatch
    /\ Len(w.reducerCalls) = 1
    /\ Len(w.actionSeen) = 1


Occurrences(seq, x) == Cardinality({ i \in 1..Len(seq) : seq[i] = x })

\* The value action$ held when a subscriber arrived: the action published
\* last, or @@INIT when nothing had been published.
HeldAt(snapshot) ==
    IF snapshot.published = 0 THEN InitAction
    ELSE w.published[snapshot.published].action

\* C7 as stated: whenever it subscribes, an action$ subscriber observes @@INIT
\* first, and exactly once.
C7_FirstActionIsInit ==
    Ready =>
        \A k \in 1..Len(actionSubAt) :
            /\ Len(w.actionSeen[k]) >= 1
            /\ w.actionSeen[k][1] = InitAction
            /\ Occurrences(w.actionSeen[k], InitAction) = 1

\* C7 (amended): the first value an action$ subscriber observes is the action
\* action$ holds when it subscribes: @@INIT, observed exactly once, for a
\* subscriber that arrives before anything was published, and otherwise the
\* action published last, @@INIT then never being observed.
C7_FirstActionIsHeldValue ==
    Ready =>
        \A k \in 1..Len(actionSubAt) :
            /\ Len(w.actionSeen[k]) >= 1
            /\ w.actionSeen[k][1] = HeldAt(actionSubAt[k])
            /\ Occurrences(w.actionSeen[k], InitAction) =
                  (IF actionSubAt[k].published = 0 THEN 1 ELSE 0)

C7_Witness ==
    /\ Ready
    /\ Len(actionSubAt) = 1
    /\ actionSubAt[1].published >= 1
    /\ Len(w.actionSeen[1]) >= 2
    /\ w.actionSeen[1][1] # InitAction

\* C8 as stated: the first value the first state$ subscriber observes is the
\* bootstrap state R(undefined, @@INIT/state).
C8_FirstStateIsBootstrap ==
    (Ready /\ Len(stateSubAt) >= 1) =>
        /\ Len(w.stateSeen[1]) >= 1
        /\ w.stateSeen[1][1] = BootstrapState

\* C8 (amended): the first value the first state$ subscriber observes is
\* R(bootstrap state, a), a being the action action$ held when state$ got its
\* first subscription: @@INIT when the effect subscribed state$ inside
\* createStore or nothing was published before, else the action published last.
C8_FirstStateFoldsHeldAction ==
    (Ready /\ Len(stateSubAt) >= 1) =>
        /\ Len(w.stateSeen[1]) >= 1
        /\ w.stateSeen[1][1] =
              Reducer(rootReducer, Some(BootstrapState),
                      IF stateSubAt[1].connected THEN InitAction
                      ELSE HeldAt(stateSubAt[1]))

C8_Witness ==
    /\ Ready
    /\ rootReducer = "log"
    /\ Len(stateSubAt) >= 1
    /\ ~stateSubAt[1].connected
    /\ stateSubAt[1].published = MaxDispatch
    /\ w.stateSeen[1][1] # BootstrapState

\* C9: a subscriber that arrives when k >= 2 states have been computed is
\* handed only the latest of them, and then each new state once.
C9_LateSubscriberGetsLatestOnly ==
    Ready =>
        \A k \in 1..Len(stateSubAt) :
            Len(stateSubAt[k].buffered) >= 2 =>
                /\ Len(w.stateSeen[k]) =
                      1 + Len(w.buffer) - Len(stateSubAt[k].buffered)
                /\ w.stateSeen[k][1] =
                      stateSubAt[k].buffered[Len(stateSubAt[k].buffered)]

\* C10: once state$ is subscribed, every action published on action$, by a
\* caller or by the effect, is folded by exactly one reducer invocation; each
\* invocation gets the result of the one before it as previous state and is
\* followed by one state$ emission, also when the state did not change; with
\* an effect that emits nothing, subscribing and then dispatching m actions
\* leaves m + 2 invocations.
C10_OneFoldAndOneEmissionPerAction ==
    (Ready /\ w.connectedAt >= 0) =>
        /\ \A i \in (w.connectedAt + 1)..Len(w.published) :
              Cardinality(FoldsOf(i)) = 1
        /\ \A j \in 2..Len(w.reducerCalls) :
              w.reducerCalls[j].prev = Some(w.reducerCalls[j - 1].result)
        /\ Len(w.buffer) = Len(w.reducerCalls) - 1
        /\ \A j \in 2..Len(w.reducerCalls) :
              w.buffer[j - 1] = w.reducerCalls[j].result
        /\ \A k \in 1..Len(stateSubAt) :
              ~stateSubAt[k].connected =>
                  Len(w.stateSeen[k]) = Len(w.reducerCalls) - 1
        /\ ( /\ EffectEmitsNothing
             /\ Len(stateSubAt) >= 1
             /\ stateSubAt[1].dispatched = 0 )
           => Len(w.reducerCalls) = Len(dispatched) + 2

C10_Witness ==
    /\ Ready
    /\ rootReducer = "const"
    /\ rootEffect = Some(triggerEffect)
    /\ Len(stateSubAt) >= 1
    /\ stateSubAt[1].dispatched = 0
    /\ dispatched = << "TRIGGER", "TEST" >>
    /\ Len(w.reducerCalls) = 5
    /\ w.stateSeen[1] = << initialState, initialState, initialState, initialState >>


\* ------------------------------------------------- effects (C12, C17, C19)
\* Position in w.pipes of the first pipeline of the i-th constituent, less one.
RECURSIVE PipesBefore(_, _)
PipesBefore(parts, i) ==
    IF i = 1 THEN 0 ELSE PipesBefore(parts, i - 1) + Len(parts[i - 1])

\* The elements of seq whose tag, at the same position of tags, is t.
RECURSIVE Pick(_, _, _)
Pick(seq, tags, t) ==
    IF seq = <<>> THEN <<>>
    ELSE (IF Head(tags) = t THEN << Head(seq) >> ELSE <<>>)
         \o Pick(Tail(seq), Tail(tags), t)

SeenBy(idx) ==
    Pick([k \in 1..Len(w.effectSeen) |-> w.effectSeen[k].action],
         [k \in 1..Len(w.effectSeen) |-> w.effectSeen[k].pipe], idx)

\* What one pipeline emits, on its own, for a sequence of actions.
RECURSIVE OutputsOn(_, _)
OutputsOn(p, actions) ==
    IF actions = <<>> THEN <<>>
    ELSE pipeOutput(p, Head(actions)) \o OutputsOn(p, Tail(actions))

\* How often pipeline idx is subscribed to the store's two streams.
Registrations(idx) ==
    Cardinality({ k \in 1..Len(w.actionObservers) :
                    w.actionObservers[k] = Observer("effect", idx) })
    + Cardinality({ k \in 1..Len(w.stateObservers) :
                    w.stateObservers[k] = Observer("effect", idx) })

\* How often pipeline idx was handed the n-th published action.
TimesSeen(idx, n) ==
    Cardinality({ k \in 1..Len(w.effectSeen) :
                    w.effectSeen[k].pipe = idx /\ w.effectSeen[k].pub = n })

\* C12: the effect combineEffects(e1, .., ek) returns subscribes every
\* constituent exactly once, each to the store's own action$ / state$; what
\* it emits is, constituent by constituent and in the constituent's order,
\* exactly what that constituent emits for the actions it was handed; nothing
\* else is emitted, and the emissions are forwarded in emission order.
C12_CombinedEffectIsMerge ==
    (Ready /\ Len(effectParts) >= 2) =>
        /\ \A i \in 1..Len(effectParts) :
              \A j \in 1..Len(effectParts[i]) :
                  LET idx == PipesBefore(effectParts, i) + j
                      p == effectParts[i][j]
                  IN  /\ Registrations(idx) = 1
                      /\ p.src = "action" =>
                            \A n \in 0..Len(w.published) : TimesSeen(idx, n) = 1
                      /\ Pick(w.emitted, w.emittedBy, idx) = OutputsOn(p, SeenBy(idx))
        /\ \A k \in 1..Len(w.emittedBy) :
              w.emittedBy[k] \in
                  1..(PipesBefore(effectParts, Len(effectParts))
                      + Len(effectParts[Len(effectParts)]))
        /\ PublishedBy(w.published, "effect") = w.emitted

C12_Witness ==
    /\ Ready
    /\ effectParts = << triggerEffect, incEffect >>
    /\ dispatched = << "TRIGGER", "INC" >>
    /\ w.emittedBy = << 1, 2, 2 >>
    /\ TypesOf(w.emitted) = << "INC", "TEST", "TEST" >>

\* C17: what an effect emits is handed to every effect pipeline on action$,
\* the emitting one included, exactly once; with combineEffects(TRIGGER -> INC,
\* INC -> TEST), subscribing state$ and dispatching one TRIGGER publishes
\* TRIGGER, INC and TEST once each, and each is folded by the reducer once.
C17_EffectsObserveEffectActions ==
    Ready =>
        /\ \A idx \in 1..Len(w.pipes) :
              w.pipes[idx].src = "action" =>
                  \A n \in 1..Len(w.published) : TimesSeen(idx, n) = 1
        /\ ( /\ effectParts = << triggerEffect, incEffect >>
             /\ Len(stateSubAt) >= 1
             /\ stateSubAt[1].dispatched = 0
             /\ dispatched = << "TRIGGER" >> )
           => /\ TypesOf([i \in 1..Len(w.published) |-> w.published[i].action])
                    = << "TRIGGER", "INC", "TEST" >>
              /\ \A n \in 1..3 : Cardinality(FoldsOf(n)) = 1
              /\ Len(w.reducerCalls) = 5

C17_Witness ==
    /\ Ready
    /\ effectParts = << triggerEffect, incEffect >>
    /\ Len(stateSubAt) >= 1
    /\ stateSubAt[1].dispatched = 0
    /\ dispatched = << "TRIGGER" >>
    /\ Len(w.published) = 3
    /\ TimesSeen(1, 2) = 1
    /\ TimesSeen(2, 3) = 1

\* C19: a store created with a root effect has invoked the effect function
\* exactly once, inside createStore, on the action$ and state$ the store
\* exposes (each pipeline of the effect is subscribed once to the stream that
\* callers publish on or subscribe); no dispatch or subscription invokes it
\* again.
C19_EffectInvokedOnceInCreateStore ==
    (Ready /\ rootEffect # Undefined) =>
        /\ w.effectCalls = 1
        /\ w.effectNextCalls = 1
        /\ Len(w.pipes) = Len(rootEffect[1])
        /\ \A idx \in 1..Len(w.pipes) :
              /\ Registrations(idx) = 1
              /\ TimesSeen(idx, 0) = (IF w.pipes[idx].src = "action" THEN 1 ELSE 0)

C19_Witness ==
    /\ Ready
    /\ rootEffect = Some(triggerEffect)
    /\ Len(dispatched) = MaxDispatch
    /\ Len(stateSubAt) = 2
    /\ Len(actionSubAt) = 1
    /\ w.effectCalls = 1

\* C20: with an effect that does not subscribe state$, the reducer has only
\* its bootstrap invocation until state$ is first subscribed; that subscription
\* folds the action published last (a_k of the k >= 1 published before it)
\* onto the bootstrap state, giving the first state R(seed, a_k), and neither
\* @@INIT nor an action published earlier is ever passed to the reducer.
EffectIgnoresState == \A i \in 1..Len(w.pipes) : w.pipes[i].src # "state"

C20_FoldConnectedLazily ==
    (Ready /\ EffectIgnoresState) =>
        /\ w.connectedAt < 0 => Len(w.reducerCalls) = 1
        /\ w.connectedAt >= 0 =>
              /\ Len(stateSubAt) >= 1
              /\ stateSubAt[1].published = w.connectedAt
              /\ Len(w.reducerCalls) >= 2
              /\ w.reducerCalls[2].prev = Some(BootstrapState)
              /\ w.reducerCalls[2].action = HeldAt(stateSubAt[1])
              /\ Len(w.stateSeen[1]) >= 1
              /\ w.stateSeen[1][1] =
                    Reducer(rootReducer, Some(BootstrapState), HeldAt(stateSubAt[1]))
              /\ w.connectedAt >= 1 =>
                    \A j \in 2..Len(w.reducerCalls) :
                        w.reducerCalls[j].pub >= w.connectedAt

C20_Witness ==
    /\ Ready
    /\ rootReducer = "log"
    /\ rootEffect = Some(triggerEffect)
    /\ dispatched = << "TEST", "TRIGGER" >>
    /\ Len(stateSubAt) >= 1
    /\ stateSubAt[1].published = 3
    /\ w.stateSeen[1] = << [log |-> << "@@INIT/state", "INC" >>] >>

\* ------------------------------------------------------------ errors
Max(a, b) == IF a >= b THEN a ELSE b

LastN(seq, n) == SubSeq(seq, Len(seq) - n + 1, Len(seq))

\* The actions published at positions from + 1 .. Len(w.published).
PublishedAfter(from) ==
    IF from >= Len(w.published) THEN <<>>
    ELSE [i \in 1..(Len(w.published) - from) |-> w.published[from + i].action]

\* The states computed by the folds of the actions published after from.
FoldedAfter(from) ==
    IF from >= Len(w.published) THEN <<>>
    ELSE [i \in 1..(Len(w.published) - from) |->
             w.reducerCalls[CHOOSE j \in FoldsOf(from + i) : TRUE].result]

\* C14: once the effect's output has raised an error, every action published
\* afterwards comes from a caller (no effect emission is redispatched); each
\* of them still reaches the action$ subscribers, in order, and, with a
\* reducer that does not throw and state$ connected, is folded by exactly one
\* reducer invocation on the previous result, whose result the state$
\* subscribers receive.
C14_EffectErrorStopsFeedbackOnly ==
    (Ready /\ w.effectErrorAt >= 0) =>
        LET e == w.effectErrorAt IN
        /\ ~w.effectAlive
        /\ \A i \in (e + 1)..Len(w.published) : w.published[i].by = "caller"
        /\ \A k \in 1..Len(actionSubAt) :
              LET tail == PublishedAfter(Max(e, actionSubAt[k].published))
              IN  /\ Len(w.actionSeen[k]) >= Len(tail)
                  /\ LastN(w.actionSeen[k], Len(tail)) = tail
        /\ (rootReducer # "failing" /\ w.connectedAt >= 0) =>
              /\ \A i \in (Max(e, w.connectedAt) + 1)..Len(w.published) :
                    /\ Cardinality(FoldsOf(i)) = 1
                    /\ \A j \in FoldsOf(i) :
                          /\ j >= 2
                          /\ ~w.reducerCalls[j].raised
                          /\ w.reducerCalls[j].action = w.published[i].action
                          /\ w.reducerCalls[j].prev = Some(w.reducerCalls[j - 1].result)
                          /\ w.reducerCalls[j].result =
                                Reducer(rootReducer, w.reducerCalls[j].prev,
                                        w.published[i].action)
              /\ (\A i \in (Max(e, w.connectedAt) + 1)..Len(w.published) :
                      FoldsOf(i) # {}) =>
                    \A k \in 1..Len(stateSubAt) :
                        LET tail == FoldedAfter(Max(e, stateSubAt[k].published))
                        IN  /\ Len(w.stateSeen[k]) >= Len(tail)
                            /\ LastN(w.stateSeen[k], Len(tail)) = tail

C14_Witness ==
    /\ Ready
    /\ rootReducer = "log"
    /\ effectParts = << triggerEffect, failingEffect >>
    /\ dispatched = << "TEST", "TRIGGER" >>
    /\ w.effectErrorAt = 1
    /\ Len(actionSubAt) = 1
    /\ actionSubAt[1].published = 0
    /\ Len(stateSubAt) >= 1
    /\ stateSubAt[1].published = 0
    /\ TypesOf(w.actionSeen[1]) = << "@@INIT", "TEST", "TRIGGER" >>
    /\ Len(w.stateSeen[1]) = 3
    /\ w.stateSeen[1][3] = [log |-> << "@@INIT/state", "@@INIT", "TEST", "TRIGGER" >>]

\* The first reducer invocation after the first c0 that threw (none: one past
\* the last invocation).
FirstRaisedAfter(c0) ==
    LET raised == { j \in (c0 + 1)..Len(w.reducerCalls) : w.reducerCalls[j].raised }
    IN  IF raised = {} THEN Len(w.reducerCalls) + 1
        ELSE CHOOSE j \in raised : \A i \in raised : j <= i

\* The results of the invocations from .. to.
ResultsOf(from, to) ==
    IF to < from THEN <<>>
    ELSE [i \in 1..(to - from + 1) |-> w.reducerCalls[from + i - 1].result]

ErrorsOf(k) == { i \in 1..Len(w.stateErrors) : w.stateErrors[i].sub = k }

\* C15 as stated: after an invocation of the reducer threw, the reducer is
\* not invoked again for the action that failed.
C15_FailedActionNeverFoldedAgain ==
    Ready =>
        \A j \in 1..Len(w.reducerCalls) :
            w.reducerCalls[j].raised =>
                \A i \in (j + 1)..Len(w.reducerCalls) :
                    w.reducerCalls[i].pub # w.reducerCalls[j].pub

\* C15: a state$ subscriber receives the states computed since it subscribed
\* up to the first invocation that throws, then that error, once, and nothing
\* after it (no repeated or earlier state); the store makes no invocation of
\* its own after the one that threw: the next one, if any, belongs to a new
\* state$ subscription, which folds the action action$ holds (the failed one
\* when nothing was published since) onto the bootstrap state.
C15_ErrorEndsStateForSubscribers ==
    Ready =>
        /\ \A k \in 1..Len(stateSubAt) :
              LET c0 == stateSubAt[k].computed
                  r == FirstRaisedAfter(c0)
                  replay == IF stateSubAt[k].connected /\ ~stateSubAt[k].failed
                            THEN stateSubAt[k].buffered ELSE <<>>
              IN  /\ w.stateSeen[k] = replay \o ResultsOf(c0 + 1, r - 1)
                  /\ Cardinality(ErrorsOf(k)) =
                        (IF r <= Len(w.reducerCalls) THEN 1 ELSE 0)
                  /\ \A i \in ErrorsOf(k) :
                        w.stateErrors[i].after = Len(w.stateSeen[k])
        /\ \A j \in 1..(Len(w.reducerCalls) - 1) :
              w.reducerCalls[j].raised =>
                  /\ w.reducerCalls[j + 1].prev = Some(BootstrapState)
                  /\ \E k \in 1..Len(stateSubAt) :
                        /\ stateSubAt[k].computed = j
                        /\ stateSubAt[k].failed
                        /\ w.reducerCalls[j + 1].action = HeldAt(stateSubAt[k])
                        /\ w.reducerCalls[j + 1].pub = stateSubAt[k].published

C15_Witness ==
    /\ Ready
    /\ rootReducer = "failing"
    /\ effectParts = << ignoreEffect >>
    /\ dispatched = << "TEST", "INC" >>
    /\ Len(stateSubAt) = 2
    /\ stateSubAt[1].dispatched = 0
    /\ stateSubAt[2].dispatched = 1
    /\ stateSubAt[2].failed
    /\ w.stateSeen[1] = << BootstrapState >>
    /\ ErrorsOf(1) # {}
    /\ ErrorsOf(2) # {}
    /\ w.stateSeen[2] = <<>>

\* ------------------------------------------------- combineReducers, select
FieldsOf(reducers) == { reducers[i].field : i \in 1..Len(reducers) }

\* The calls of the sub-reducer of a field within one call of the combined
\* reducer.
SubCallsFor(call, field) ==
    { i \in 1..Len(call.subCalls) : call.subCalls[i].field = field }

\* The previous aggregate as it was when the call was made ({} without one).
PreviousOf(call) ==
    IF call.prevState = Undefined THEN {} ELSE call.heapBefore[call.prevState[1]]

\* No sub-reducer returned a value different from the previous aggregate's.
NothingChanged(call) ==
    \A i \in 1..Len(call.subCalls) :
        strictEquals(call.subCalls[i].next,
                     getProp(PreviousOf(call), call.subCalls[i].field))

\* C11: called with a previous aggregate P, the combined reducer returns P
\* itself when every sub-reducer returned the value P has for its field;
\* otherwise it returns an object that did not exist before, which keeps P's
\* fields and reads, for every field of the mapping, as the value its
\* sub-reducer returned; no object that existed before the call, P included,
\* is modified.
C11_SameAggregateUnlessAFieldChanged ==
    \A c \in 1..Len(lib.calls) :
        LET call == lib.calls[c] IN
        call.prevState # Undefined =>
            LET P == call.prevState[1] IN
            /\ NothingChanged(call) => call.result = P
            /\ ~NothingChanged(call) =>
                  /\ call.result # P
                  /\ call.result > Len(call.heapBefore)
                  /\ Keys(PreviousOf(call)) \subseteq Keys(lib.heap[call.result])
                  /\ \A i \in 1..Len(call.subCalls) :
                        strictEquals(getProp(lib.heap[call.result],
                                             call.subCalls[i].field),
                                     call.subCalls[i].next)
            /\ \A r \in 1..Len(call.heapBefore) : lib.heap[r] = call.heapBefore[r]

C11_Witness ==
    /\ lib.reducers = << Entry("a", "count"), Entry("b", "list") >>
    /\ Len(lib.calls) = 3
    /\ lib.calls[1].prevState = Undefined
    /\ lib.calls[2].prevState = Some(lib.results[1])
    /\ lib.calls[2].action.type = "TEST"
    /\ lib.results[2] = lib.results[1]
    /\ lib.calls[3].prevState = Some(lib.results[1])
    /\ lib.calls[3].action.type = "INC"
    /\ lib.results[3] # lib.results[1]
    /\ getProp(lib.heap[lib.results[3]], "a") = Num(1)
    /\ getProp(lib.heap[lib.results[1]], "a") = Num(0)

\* Structural comparison, whatever the objects' identities.
deepEquals(x, y) == x.t = y.t /\ (IF x.t = "obj" THEN x.props = y.props ELSE x.n = y.n)

Reverse(seq) == [i \in 1..Len(seq) |-> seq[Len(seq) + 1 - i]]

\* The sub-state without the identity of the object that holds it.
Content(v) == [t |-> v.t, n |-> IF v.t = "obj" THEN 0 ELSE v.n, props |-> v.props]

\* The same call with the mapping's fields in the opposite order.
SwappedResult(call) ==
    LET r == combineReducers(Reverse(lib.reducers),
                             Memory(call.heapBefore, call.idBefore),
                             call.prevState, call.action)
    IN  r.mem.heap[r.ref]

\* Every sub-reducer is invoked once per call, with the previous aggregate's
\* value for its field (undefined without one) and the action; the result
\* holds what it returned, also with the fields in the opposite order.
SubReducersIndependent(call) ==
    /\ Len(call.subCalls) = Len(lib.reducers)
    /\ \A i \in 1..Len(lib.reducers) :
          LET field == lib.reducers[i].field
              sub == call.subCalls[i]
          IN  /\ SubCallsFor(call, field) = { i }
              /\ sub.prev = getProp(PreviousOf(call), field)
              /\ sub.action = call.action
              /\ strictEquals(getProp(lib.heap[call.result], field), sub.next)
              /\ deepEquals(sub.next,
                            subReducer(lib.reducers[i].reducer,
                                       getProp(PreviousOf(call), field),
                                       call.action, 0))
              /\ Content(getProp(SwappedResult(call), field)) = Content(sub.next)

\* C18 as stated: (every sub-reducer is invoked once, on its own field's
\* previous value) and the result of a call without previous state has one
\* entry per field of the mapping.
C18_InitialResultHasEveryField ==
    \A c \in 1..Len(lib.calls) :
        /\ SubReducersIndependent(lib.calls[c])
        /\ lib.calls[c].prevState = Undefined =>
              Keys(lib.heap[lib.calls[c].result]) = FieldsOf(lib.reducers)

\* C18: every sub-reducer is invoked once per call, on its own field's
\* previous value, whatever the order of the fields; the result of a call
\* without previous state has one entry for each field whose sub-reducer
\* returned something other than undefined, and no other entry.
C18_SubReducersIndependent ==
    \A c \in 1..Len(lib.calls) :
        /\ SubReducersIndependent(lib.calls[c])
        /\ lib.calls[c].prevState = Undefined =>
              Keys(lib.heap[lib.calls[c].result]) =
                  { lib.calls[c].subCalls[i].field :
                      i \in { j \in 1..Len(lib.calls[c].subCalls) :
                                lib.calls[c].subCalls[j].next # Undef } }

C18_Witness ==
    /\ lib.reducers = << Entry("b", "list"), Entry("a", "identity") >>
    /\ Len(lib.calls) = 2
    /\ lib.calls[1].prevState = Undefined
    /\ Keys(lib.heap[lib.results[1]]) = { "b" }
    /\ lib.calls[2].prevState = Some(lib.results[1])
    /\ lib.calls[2].action.type = "INC"
    /\ Len(lib.calls[2].subCalls) = 2
    /\ lib.calls[2].subCalls[2].prev = Undef
    /\ getProp(lib.heap[lib.results[2]], "b").props = { << "len", Num(1) >> }

\* The projection select emitted last before the i-th source value.
LastEmittedBefore(i) == lib.distinct.emitted[lib.selectLog[i - 1].emitted]

\* The i-th source value's projection was emitted.
EmittedAt(i) ==
    lib.selectLog[i].emitted = (IF i = 1 THEN 0 ELSE lib.selectLog[i - 1].emitted) + 1

\* C13: select emits the projection of the first source value, then a
\* projection exactly when it is not === the projection emitted last; no two
\* consecutive emitted values are ===; a path with a missing key projects to
\* undefined.
C13_SelectEmitsOnChangeOnly ==
    /\ Len(lib.selectLog) >= 1 =>
          /\ Len(lib.distinct.emitted) >= 1
          /\ lib.distinct.emitted[1] = lib.selectLog[1].projection
          /\ lib.selectLog[Len(lib.selectLog)].emitted = Len(lib.distinct.emitted)
    /\ \A i \in 1..Len(lib.selectLog) :
          /\ lib.selectLog[i].emitted \in 1..Len(lib.distinct.emitted)
          /\ i >= 2 =>
                /\ EmittedAt(i) <=>
                      ~strictEquals(lib.selectLog[i].projection, LastEmittedBefore(i))
                /\ ~EmittedAt(i) => lib.selectLog[i].emitted = lib.selectLog[i - 1].emitted
          /\ EmittedAt(i) =>
                lib.distinct.emitted[lib.selectLog[i].emitted] = lib.selectLog[i].projection
          /\ ( /\ ~haveMapperFunc(lib.selector)
               /\ \E n \in 1..Len(lib.selector.path) :
                     LET at == pluck(lib.selectLog[i].source,
                                     SubSeq(lib.selector.path, 1, n - 1))
                     IN  at = Undef \/ lib.selector.path[n] \notin Keys(at.props) )
             => lib.selectLog[i].projection = Undef
    /\ \A k \in 1..(Len(lib.distinct.emitted) - 1) :
          ~strictEquals(lib.distinct.emitted[k], lib.distinct.emitted[k + 1])

C13_Witness ==
    /\ lib.selector = [mapper |-> "", path |-> << "a", "b" >>]
    /\ Len(lib.selectLog) = 3
    /\ lib.selectLog[1].source.n = 1
    /\ lib.selectLog[2].source.n = 2
    /\ lib.selectLog[3].source.n = 4
    /\ lib.distinct.emitted = << Num(1), Undef >>

\* C16: createAction called with the empty string does not return an action,
\* and every action it returns has a non-empty type.
C16_EmptyTypeRejected ==
    \A i \in 1..Len(lib.created) :
        /\ lib.created[i].type = "" => lib.created[i].threw
        /\ ~lib.created[i].threw => lib.created[i].result.type # ""

====
